---------------------------- MODULE Spec2Model ----------------------------
(***************************************************************************)
(* hooks/append_jira_commit_message.py: a Mercurial hook that wraps        *)
(* repo.commitctx so that a link to the Jira ticket named by the branch    *)
(* (or the active bookmark) is appended to the commit message.             *)
(*                                                                         *)
(* Python strings are modelled as sequences of one-character strings.      *)
(***************************************************************************)
EXTENDS Integers, Sequences, FiniteSets, TLC

VARIABLES
    arg,          \* extract_project_and_id: the argument `message`
    ret,          \* extract_project_and_id: the value returned
    xdone,        \* extract_project_and_id: whether the call has returned
    hostConfig,   \* the host: what client.config("jira") answers
    wrappers,     \* the rewrite_ctx closures installed, innermost first: the
                  \* jira_url_base of each; repo.commitctx is the last one, or
                  \* the original commit operation when there is none
    pc,           \* "idle", "call" (going down the wrappers), "return", "exited"
    exitStatus,   \* the status of sys.exit, -1 while the process runs
    out,          \* what was printed since the last commit began
    commits,      \* the number of commits the host has begun
    ctx,          \* the commit context: its identity, branch() and _text
    hostArgs,     \* the arguments of the host's call of repo.commitctx
    call,         \* the arguments of the call now in flight
    origText,     \* ctx._text when the host made the call
    bm,           \* the host: what client.bookmarks() answers in this commit
    level,        \* the wrapper that runs next (going down), or the one the
                  \* result has reached (going up); 0 is the original operation
    depth,        \* the number of wrappers the commit goes through
    asked,        \* the calls of client.bookmarks() in this commit
    delegations,  \* the calls of the original commit operation in this commit
    result,       \* the result on its way back to the host
    amend,        \* the commit repeats the previous one with the message it left
    prevDepth     \* the number of wrappers the previous commit went through

xvars == <<arg, ret, xdone>>

hvars == <<hostConfig, wrappers, pc, exitStatus, out, commits, ctx, hostArgs, call,
           origText, bm, level, depth, asked, delegations, result, amend, prevDepth>>

vars == <<xvars, hvars>>

(***************************************************************************)
(* Bounds of the checked input space.                                      *)
(***************************************************************************)
MaxLen == 5
MaxNameLen == 7
MaxInstalls == 2
MaxCommits == 3

(***************************************************************************)
(* Character classes of the regular expression and of str.strip().         *)
(***************************************************************************)
Upper == {"A", "B", "C", "D", "E", "F", "G", "H", "I", "J", "K", "L", "M",
          "N", "O", "P", "Q", "R", "S", "T", "U", "V", "W", "X", "Y", "Z"}

Digit == {"0", "1", "2", "3", "4", "5", "6", "7", "8", "9"}

\* the characters str.strip() removes (the vertical tab has no TLA+ escape)
Whitespace == {" ", "\t", "\n", "\r", "\f"}

Max(S) == CHOOSE x \in S : \A y \in S : y <= x

Min(S) == CHOOSE x \in S : \A y \in S : x <= y

(***************************************************************************)
(* extract_project_and_id: re.compile(r"^(.*/)?[A-Z]+-\d+").match(message) *)
(***************************************************************************)
\* [A-Z]+ or \d+ from position p: the length of the greedy run
RECURSIVE ClassRun(_, _, _)
ClassRun(s, p, class) ==
    IF p > Len(s) \/ s[p] \notin class THEN 0 ELSE 1 + ClassRun(s, p + 1, class)

\* .* from position p: "." is any character but the newline
RECURSIVE DotRun(_, _)
DotRun(s, p) ==
    IF p > Len(s) \/ s[p] = "\n" THEN 0 ELSE 1 + DotRun(s, p + 1)

\* [A-Z]+-\d+ at position p: the index of the last character matched, or 0.
\* Both runs are greedy, and giving a character back never helps: after a
\* shorter run of letters comes a letter, not the hyphen, and nothing
\* follows the digits in the pattern.
TicketEnd(s, p) ==
    LET u == ClassRun(s, p, Upper)
        q == p + u
        d == ClassRun(s, q + 1, Digit)
    IN  IF u = 0 \/ q > Len(s) \/ s[q] # "-" \/ d = 0 THEN 0 ELSE q + d

\* (.*/)? : the greedy .* takes the whole first line and gives characters
\* back until a slash follows that the ticket follows; these are the
\* positions of such a slash
PrefixEnds(s) ==
    {j \in 1..Len(s) : /\ s[j] = "/"
                       /\ j - 1 <= DotRun(s, 1)
                       /\ TicketEnd(s, j + 1) > 0}

\* jira_regex.match(message): matched is the truth value of the match
\* object, group0 is match.group(0)
re_match(s) ==
    LET e == IF PrefixEnds(s) # {} THEN TicketEnd(s, Max(PrefixEnds(s)) + 1)
             ELSE TicketEnd(s, 1)
    IN  [matched |-> e > 0, group0 |-> SubSeq(s, 1, e)]

\* t.split('/')[-1]
SplitLast(t) ==
    LET slashes == {i \in 1..Len(t) : t[i] = "/"}
    IN  IF slashes = {} THEN t ELSE SubSeq(t, Max(slashes) + 1, Len(t))

\* bug: the prefix is not split off the match
extract_keep_prefix(message) ==
    LET match == re_match(message)
    IN  IF match.matched THEN match.group0 ELSE <<>>

\* bug: re.search without the anchor, the first ticket anywhere
extract_search(message) ==
    LET starts == {p \in 1..Len(message) : TicketEnd(message, p) > 0}
    IN  IF starts = {} THEN <<>>
        ELSE SubSeq(message, Min(starts), TicketEnd(message, Min(starts)))

extract_project_and_id(message) ==
    LET match == re_match(message)
    IN  IF match.matched THEN SplitLast(match.group0) ELSE <<>>

(***************************************************************************)
(* The host: configuration, branches, bookmarks, messages.                 *)
(***************************************************************************)
\* "https://j/browse"
UrlBrowse == <<"h","t","t","p","s",":","/","/","j","/","b","r","o","w","s","e">>

\* "h://j/", a base URL that ends in a slash, as the one of the help text
UrlSlash == <<"h",":","/","/","j","/">>

KeyUrl == "jira.url"

\* what client.config("jira") answers: it raises hglib.error.CommandError,
\* or returns (section, key, value) tuples
HostConfigs ==
    { [raises |-> TRUE, items |-> <<>>],
      [raises |-> FALSE, items |-> <<>>],
      [raises |-> FALSE, items |-> << <<"jira", "jira.user", <<"b","o","b">> >> >>],
      [raises |-> FALSE, items |-> << <<"jira", KeyUrl, UrlSlash>> >>],
      [raises |-> FALSE, items |-> << <<"jira", "jira.user", <<"b","o","b">> >>,
                                      <<"jira", KeyUrl, UrlBrowse>> >>] }

\* branch names: "default", "ABC-1", "fix/ABC-1-x"
Branches ==
    { <<"d","e","f","a","u","l","t">>,
      <<"A","B","C","-","1">>,
      <<"f","i","x","/","A","B","C","-","1","-","x">> }

\* what client.bookmarks() answers: the (name, rev, node) tuples and the
\* index of the active one, -1 when none is active
BookmarkList ==
    << << <<"w","o","r","k">>, 3, "n3" >>, << <<"A","B","C","-","2">>, 4, "n4" >> >>

BookmarkStates == {[list |-> BookmarkList, active |-> a] : a \in {-1, 0, 1}}

\* "{0}/{1}".format(jira_url_base, jira)
Link(jira_url_base, jira) == jira_url_base \o <<"/">> \o jira

\* commit messages: "fix bug", " fix", "fix \n", " \n", and one that holds
\* the link to ABC-1 under https://j/browse
Messages ==
    { <<"f","i","x"," ","b","u","g">>,
      <<" ","f","i","x">>,
      <<"f","i","x"," ","\n">>,
      <<" ","\n">> }
        \cup { <<"s","e","e"," ">> \o Link(UrlBrowse, <<"A","B","C","-","1">>) \o <<" ","x">> }

\* the error argument of commitctx
ErrorArgs == {FALSE, TRUE}

\* what the original commit operation does: it returns a node or raises
HostResults == {[kind |-> "return", value |-> "node"], [kind |-> "raise", value |-> "Abort"]}

(***************************************************************************)
(* append_jira_commit_message and the functions nested in it.              *)
(***************************************************************************)
\* bug: the first setting of the section, whatever its key
get_config_any_key(config, key) ==
    IF config.raises \/ config.items = <<>>
    THEN [missing |-> TRUE, value |-> <<>>]
    ELSE [missing |-> FALSE, value |-> config.items[1][3]]

\* get_config(key): next() over the settings whose key is `key`; StopIteration
\* and CommandError become MissingConfig. A tuple of three is never falsy, so
\* the `if not cfg` branch is dead.
get_config(config, key) ==
    LET hits == {i \in 1..Len(config.items) : config.items[i][2] = key}
    IN  IF config.raises \/ hits = {}
        THEN [missing |-> TRUE, value |-> <<>>]
        ELSE [missing |-> FALSE, value |-> config.items[Min(hits)][3]]

\* jira_link in message
Contains(message, jira_link) ==
    \E i \in 0..Len(message) - Len(jira_link) :
        SubSeq(message, i + 1, i + Len(jira_link)) = jira_link

RECURSIVE lstrip(_)
lstrip(s) == IF s # <<>> /\ Head(s) \in Whitespace THEN lstrip(Tail(s)) ELSE s

RECURSIVE rstrip(_)
rstrip(s) ==
    IF s # <<>> /\ s[Len(s)] \in Whitespace THEN rstrip(SubSeq(s, 1, Len(s) - 1)) ELSE s

\* message.strip()
strip(s) == rstrip(lstrip(s))

Notice(jira_link, whence) == [link |-> jira_link, whence |-> whence]

\* bug: only the trailing whitespace is removed
format_message_rstrip(jira_url_base, message, jira, whence) ==
    LET jira_link == Link(jira_url_base, jira)
    IN  IF Contains(message, jira_link)
        THEN [text |-> message, printed |-> <<>>]
        ELSE [text |-> rstrip(message) \o <<"\n", "\n">> \o jira_link \o <<"\n">>,
              printed |-> <<Notice(jira_link, whence)>>]

\* bug: the link follows on the next line, with no blank line
format_message_no_blank_line(jira_url_base, message, jira, whence) ==
    LET jira_link == Link(jira_url_base, jira)
    IN  IF Contains(message, jira_link)
        THEN [text |-> message, printed |-> <<>>]
        ELSE [text |-> strip(message) \o <<"\n">> \o jira_link \o <<"\n">>,
              printed |-> <<Notice(jira_link, whence)>>]

\* bug: the message is compared with the link instead of searched for it
format_message_equal(jira_url_base, message, jira, whence) ==
    LET jira_link == Link(jira_url_base, jira)
    IN  IF jira_link = message
        THEN [text |-> message, printed |-> <<>>]
        ELSE [text |-> strip(message) \o <<"\n", "\n">> \o jira_link \o <<"\n">>,
              printed |-> <<Notice(jira_link, whence)>>]

\* bug: the link is appended without looking for it
format_message_always(jira_url_base, message, jira, whence) ==
    LET jira_link == Link(jira_url_base, jira)
    IN  [text |-> strip(message) \o <<"\n", "\n">> \o jira_link \o <<"\n">>,
         printed |-> <<Notice(jira_link, whence)>>]

\* format_message(message, jira, whence), jira_url_base being the closure's:
\* the message returned and what is printed
format_message(jira_url_base, message, jira, whence) ==
    LET jira_link == Link(jira_url_base, jira)
    IN  IF Contains(message, jira_link)
        THEN [text |-> message, printed |-> <<>>]
        ELSE [text |-> strip(message) \o <<"\n", "\n">> \o jira_link \o <<"\n">>,
              printed |-> <<Notice(jira_link, whence)>>]

\* bookmarks[active][0]; a negative Python index counts from the end
BookmarkName(bookmarks, active) ==
    IF active >= 0 THEN bookmarks[active + 1][1] ELSE bookmarks[Len(bookmarks) + 1 + active][1]

\* bug: the bookmarks are asked first, the branch name only after them
rewrite_ctx_bookmark_first(jira_url_base, branch_name, commit_message, bookmarks) ==
    LET found == IF bookmarks.active # -1
                 THEN extract_project_and_id(BookmarkName(bookmarks.list, bookmarks.active))
                 ELSE <<>>
        byBranch == extract_project_and_id(branch_name)
    IN  IF found # <<>>
        THEN format_message(jira_url_base, commit_message, found, "bookmark name")
                 @@ [asked |-> 1]
        ELSE IF byBranch # <<>>
        THEN format_message(jira_url_base, commit_message, byBranch, "branch name")
                 @@ [asked |-> 1]
        ELSE [text |-> commit_message, printed |-> <<>>, asked |-> 1]

\* bug: `active != -1` is not tested, and bookmarks[-1] is the last bookmark
rewrite_ctx_no_active_test(jira_url_base, branch_name, commit_message, bookmarks) ==
    LET found == extract_project_and_id(branch_name)
    IN  IF found # <<>>
        THEN format_message(jira_url_base, commit_message, found, "branch name")
                 @@ [asked |-> 0]
        ELSE LET found2 == IF bookmarks.list # <<>>
                           THEN extract_project_and_id(
                                    BookmarkName(bookmarks.list, bookmarks.active))
                           ELSE <<>>
             IN  IF found2 # <<>>
                 THEN format_message(jira_url_base, commit_message, found2, "bookmark name")
                          @@ [asked |-> 1]
                 ELSE [text |-> commit_message, printed |-> <<>>, asked |-> 1]

\* rewrite_ctx(ctx, error) up to its call of commitctx: the message it
\* leaves in ctx._text, what it prints, and how often it calls
\* client.bookmarks()
rewrite_ctx(jira_url_base, branch_name, commit_message, bookmarks) ==
    LET found == extract_project_and_id(branch_name)
    IN  IF found # <<>>
        THEN format_message(jira_url_base, commit_message, found, "branch name")
                 @@ [asked |-> 0]
        ELSE LET found2 == IF bookmarks.active # -1
                           THEN extract_project_and_id(
                                    BookmarkName(bookmarks.list, bookmarks.active))
                           ELSE <<>>
             IN  IF found2 # <<>>
                 THEN format_message(jira_url_base, commit_message, found2, "bookmark name")
                          @@ [asked |-> 1]
                 ELSE [text |-> commit_message, printed |-> <<>>, asked |-> 1]

\* bug: the error argument is not passed on
DelegateArgsNoError(c, error) == [ctx |-> c, error |-> FALSE]

\* commitctx(ctx, error): the arguments of the wrapper's call
DelegateArgs(c, error) == [ctx |-> c, error |-> error]

NoCtx == [id |-> 0, branch |-> <<>>, text |-> <<>>]

NoArgs == [ctx |-> 0, error |-> FALSE]

NoResult == [kind |-> "none", value |-> "none"]

\* the hook is loaded and nothing has run
HookIdle ==
    /\ wrappers = <<>>
    /\ pc = "idle"
    /\ exitStatus = -1
    /\ out = <<>>
    /\ commits = 0
    /\ ctx = NoCtx
    /\ hostArgs = NoArgs
    /\ call = NoArgs
    /\ origText = <<>>
    /\ bm = [list |-> <<>>, active |-> -1]
    /\ level = 0
    /\ depth = 0
    /\ asked = 0
    /\ delegations = <<>>
    /\ result = NoResult
    /\ amend = FALSE
    /\ prevDepth = 0

Init ==
    /\ hostConfig \in HostConfigs
    /\ HookIdle
    /\ arg = <<>>
    /\ ret = <<>>
    /\ xdone = FALSE

\* print("ERROR: {}".format(err)); print_help()
SetupFailureOutput ==
    << [link |-> <<>>, whence |-> "ERROR: Missing configuration key 'jira.url'"],
       [link |-> <<>>, whence |-> "help"] >>

commitVars == <<commits, ctx, hostArgs, call, origText, bm, level, depth, asked,
                delegations, result, amend, prevDepth>>

\* append_jira_commit_message(repo): the host installs the hook
append_jira_commit_message ==
    /\ pc = "idle"
    /\ Len(wrappers) < MaxInstalls
    /\ LET cfg == get_config(hostConfig, KeyUrl)
       IN  IF cfg.missing
           THEN /\ out' = out \o SetupFailureOutput
                /\ pc' = "exited"
                /\ exitStatus' = 1
                /\ UNCHANGED wrappers
           ELSE /\ wrappers' = Append(wrappers, cfg.value)
                /\ UNCHANGED <<pc, exitStatus, out>>
    /\ UNCHANGED <<hostConfig, commitVars, xvars>>

\* the host begins a commit: it calls repo.commitctx(ctx, error)
BeginCommit(branch, text, bookmarks, error, repeats) ==
    /\ pc = "idle"
    /\ commits < MaxCommits
    /\ commits' = commits + 1
    /\ ctx' = [id |-> commits + 1, branch |-> branch, text |-> text]
    /\ hostArgs' = [ctx |-> commits + 1, error |-> error]
    /\ call' = [ctx |-> commits + 1, error |-> error]
    /\ origText' = text
    /\ bm' = bookmarks
    /\ depth' = Len(wrappers)
    /\ level' = Len(wrappers)
    /\ asked' = 0
    /\ delegations' = <<>>
    /\ result' = NoResult
    /\ out' = <<>>
    /\ pc' = "call"
    /\ amend' = repeats
    /\ prevDepth' = depth
    /\ UNCHANGED <<hostConfig, wrappers, exitStatus, xvars>>

HostCommit ==
    \E branch \in Branches, text \in Messages, bookmarks \in BookmarkStates,
       error \in ErrorArgs :
        BeginCommit(branch, text, bookmarks, error, FALSE)

\* hg commit --amend, or the commit made again: the same branch and
\* bookmarks, and the message the previous commit left in its context
HostAmend ==
    /\ commits >= 1
    /\ \E error \in ErrorArgs : BeginCommit(ctx.branch, ctx.text, bm, error, TRUE)

\* the wrapper on top of the call chain runs rewrite_ctx(ctx, error)
CallRewriteCtx ==
    /\ pc = "call"
    /\ level >= 1
    /\ LET r == rewrite_ctx(wrappers[level], ctx.branch, ctx.text, bm)
       IN  /\ ctx' = [ctx EXCEPT !.text = r.text]
           /\ out' = out \o r.printed
           /\ asked' = asked + r.asked
    /\ call' = DelegateArgs(call.ctx, call.error)
    /\ level' = level - 1
    /\ UNCHANGED <<hostConfig, wrappers, pc, exitStatus, commits, hostArgs, origText, bm,
                   depth, delegations, result, amend, prevDepth, xvars>>

\* the original commit operation of the host runs with the call's arguments
OrigCommitctx ==
    /\ pc = "call"
    /\ level = 0
    /\ \E r \in HostResults :
        /\ delegations' = Append(delegations,
               [ctx |-> call.ctx, error |-> call.error, text |-> ctx.text, result |-> r])
        /\ result' = r
    /\ pc' = IF depth = 0 THEN "idle" ELSE "return"
    /\ UNCHANGED <<hostConfig, wrappers, exitStatus, out, commits, ctx, hostArgs, call,
                   origText, bm, level, depth, asked, amend, prevDepth, xvars>>

\* `return commitctx(ctx, error)`: a wrapper hands the result to its caller,
\* or the exception passes through it
ReturnRewriteCtx ==
    /\ pc = "return"
    /\ level < depth
    /\ level' = level + 1
    /\ pc' = IF level + 1 = depth THEN "idle" ELSE "return"
    /\ UNCHANGED <<hostConfig, wrappers, exitStatus, out, commits, ctx, hostArgs, call,
                   origText, bm, depth, asked, delegations, result, amend, prevDepth, xvars>>

Next ==
    \/ append_jira_commit_message
    \/ HostCommit
    \/ HostAmend
    \/ CallRewriteCtx
    \/ OrigCommitctx
    \/ ReturnRewriteCtx

Spec == Init /\ [][Next]_vars

(***************************************************************************)
(* The inputs of the extractor: every string over Alphabet up to MaxLen,   *)
(* every string over NameAlphabet up to MaxNameLen, and the strings of     *)
(* the function's doctests.                                                *)
(***************************************************************************)
Alphabet == {"A", "b", "-", "1", "2", "/", "\n"}

NameAlphabet == {"A", "-", "1", "2", "/"}

Strings(chars, n) == UNION {[1..k -> chars] : k \in 0..n}

Doctests ==
    { <<"A","B","C","-","1","2","3","-","b","r","a","n","c","h","-","n","a","m","e">>,
      <<"f","e","a","t","u","r","e","/","A","B","C","-","1","2","3","-","b","r","a","n","c","h","-","n","a","m","e">>,
      <<"f","i","x","/","A","B","C","-","1","2","3","-","b","r","a","n","c","h","-","n","a","m","e">>,
      <<"b","r","a","n","c","h","-","n","a","m","e">>,
      <<"a","b","c","-","1","2","3","-","b","r","a","n","c","h","-","n","a","m","e">>,
      <<"b","r","a","n","c","h","-","n","a","m","e","-","A","B","C","-","1","2","3">> }

Inputs == Strings(Alphabet, MaxLen) \cup Strings(NameAlphabet, MaxNameLen) \cup Doctests

InitExtract ==
    /\ arg \in Inputs
    /\ ret = <<>>
    /\ xdone = FALSE
    /\ hostConfig = [raises |-> FALSE, items |-> <<>>]
    /\ HookIdle

\* one call extract_project_and_id(arg)
Extract ==
    /\ ~xdone
    /\ ret' = extract_project_and_id(arg)
    /\ xdone' = TRUE
    /\ UNCHANGED <<arg, hvars>>

NextExtract == Extract

SpecExtract == InitExtract /\ [][NextExtract]_vars

(***************************************************************************)
(* What the claims about the extractor speak of, stated without the        *)
(* matcher: a ticket is letters, a hyphen, digits.                         *)
(***************************************************************************)
IsTicket(t) ==
    \E k \in 1..Len(t) - 2 :
        /\ \A i \in 1..k : t[i] \in Upper
        /\ t[k + 1] = "-"
        /\ \A i \in k + 2..Len(t) : t[i] \in Digit

\* the ends of the tickets that start at p
TicketsAt(s, p) == {e \in p..Len(s) : IsTicket(SubSeq(s, p, e))}

\* the ticket at p, with all its digits
TicketAt(s, p) == SubSeq(s, p, Max(TicketsAt(s, p)))

\* p is the start of the string or stands right after a slash
AfterPrefix(s, p) == p = 1 \/ s[p - 1] = "/"

\* the places a ticket stands at the start or right after a slash
TicketPlaces(s) ==
    {p \in 1..Len(s) : AfterPrefix(s, p) /\ TicketsAt(s, p) # {}}

\* the same, with no newline before the ticket
TicketPlacesOnFirstLine(s) ==
    {p \in TicketPlaces(s) : \A i \in 1..p - 1 : s[i] # "\n"}

\* C2 as stated: the first ticket reference that matches the pattern is
\* returned, in the form PROJECT-ID (no more is asked here than for the
\* strings whose first ticket has no newline before it).
C2_FirstTicket ==
    (xdone /\ TicketPlacesOnFirstLine(arg) # {}) =>
        ret = TicketAt(arg, Min(TicketPlacesOnFirstLine(arg)))

\* C2 amended: the ticket returned is the one after the longest newline-free
\* slash-terminated prefix that a ticket follows (the last such ticket, and
\* the one at the start of the string when no such prefix exists), with the
\* prefix stripped, no slash in it, the casing kept, the rest discarded.
C2_LastTicket ==
    (xdone /\ TicketPlacesOnFirstLine(arg) # {}) =>
        /\ ret = TicketAt(arg, Max(TicketPlacesOnFirstLine(arg)))
        /\ IsTicket(ret)
        /\ \A i \in 1..Len(ret) : ret[i] # "/"

C2_Witness ==
    /\ xdone
    /\ Cardinality(TicketPlacesOnFirstLine(arg)) = 2
    /\ TicketAt(arg, Min(TicketPlaces(arg))) # ret
    /\ ret # <<>>

\* C3: a string in which no ticket stands at the start or right after a
\* slash-terminated prefix yields the empty string.
C3_NoMatchEmpty ==
    (xdone /\ TicketPlaces(arg) = {}) => ret = <<>>

C3_Witness ==
    /\ xdone
    /\ TicketPlaces(arg) = {}
    /\ \E p \in 1..Len(arg) : TicketsAt(arg, p) # {}
    /\ ret = <<>>

(***************************************************************************)
(* What the claims about the interceptor speak of.                         *)
(***************************************************************************)
\* a commit went through the interceptor and is back at the host
Finished == commits >= 1 /\ depth >= 1 /\ pc = "idle"

\* the configured base URL
Base == wrappers[1]

\* the reference the branch name yields
BranchRef == extract_project_and_id(ctx.branch)

\* the reference the name of the active bookmark yields, if one is active
ActiveBookmarkRef ==
    IF bm.active = -1 THEN <<>> ELSE extract_project_and_id(bm.list[bm.active + 1][1])

UsedRef == IF BranchRef # <<>> THEN BranchRef ELSE ActiveBookmarkRef

\* '{base_url}/{reference}'
CandidateLink == Base \o <<"/">> \o UsedRef

\* a blank line, the link, a newline
Block(lnk) == <<"\n", "\n">> \o lnk \o <<"\n">>

IsPrefix(p, s) == Len(p) <= Len(s) /\ SubSeq(s, 1, Len(p)) = p

IsSuffix(p, s) == Len(p) <= Len(s) /\ SubSeq(s, Len(s) - Len(p) + 1, Len(s)) = p

\* the number of places lnk occurs at in s
Count(lnk, s) ==
    Cardinality({i \in 0..Len(s) - Len(lnk) : SubSeq(s, i + 1, i + Len(lnk)) = lnk})

\* m without the whitespace at its end
TrailingTrimmed(m) ==
    LET ends == {j \in 0..Len(m) : /\ \A k \in j + 1..Len(m) : m[k] \in Whitespace
                                   /\ j > 0 => m[j] \notin Whitespace}
    IN  SubSeq(m, 1, CHOOSE j \in ends : TRUE)

\* m without the whitespace at its start and at its end
Trimmed(m) ==
    LET t == TrailingTrimmed(m)
        starts == {i \in 1..Len(t) + 1 : /\ \A k \in 1..i - 1 : t[k] \in Whitespace
                                         /\ i <= Len(t) => t[i] \notin Whitespace}
    IN  SubSeq(t, CHOOSE i \in starts : TRUE, Len(t))

\* "fix bug"
FixBug == <<"f","i","x"," ","b","u","g">>

\* "fix bug\n\nhttps://j/browse/ABC-1\n"
FixBugLinked ==
    <<"f","i","x"," ","b","u","g","\n","\n","h","t","t","p","s",":","/","/","j","/",
      "b","r","o","w","s","e","/","A","B","C","-","1","\n">>

\* C1 as stated: the message handed on is the original message, or the
\* original message (whitespace at its end aside) followed by one trailing
\* block with the link, a blank line between them.
C1_OriginalThenBlock ==
    Finished =>
        \/ ctx.text = origText
        \/ /\ UsedRef # <<>>
           /\ \E k \in Len(TrailingTrimmed(origText))..Len(origText) :
                  ctx.text = SubSeq(origText, 1, k) \o Block(CandidateLink)

\* C1 amended: the message handed on is the original message, or the
\* original message without its leading and trailing whitespace followed by
\* one trailing block: a blank line, the link (which the original message
\* did not hold), a newline.
C1_TrimmedThenBlock ==
    Finished =>
        \/ ctx.text = origText
        \/ /\ UsedRef # <<>>
           /\ ~Contains(origText, CandidateLink)
           /\ ctx.text = Trimmed(origText) \o Block(CandidateLink)
           /\ delegations[1].text = ctx.text

C1_Witness ==
    /\ Finished
    /\ ctx.text # origText
    /\ origText # <<>>
    /\ origText[1] \in Whitespace
    /\ Trimmed(origText) # <<>>

\* C4: a message that holds the candidate link is left as it is; the message
\* an interception leaves holds the candidate link; so the commit made again
\* with that message, on the same branch and bookmarks, leaves it as it is
\* and prints nothing.
C4_Idempotent ==
    Finished =>
        /\ (UsedRef # <<>> /\ Contains(origText, CandidateLink)) =>
               (ctx.text = origText /\ out = <<>>)
        /\ UsedRef # <<>> => Contains(ctx.text, CandidateLink)
        /\ (amend /\ prevDepth >= 1) =>
               /\ ctx.text = origText
               /\ out = <<>>
               /\ UsedRef # <<>> => Count(CandidateLink, ctx.text) = Count(CandidateLink, origText)

C4_Witness ==
    /\ Finished
    /\ amend
    /\ prevDepth >= 1
    /\ commits >= 3
    /\ UsedRef # <<>>
    /\ Count(CandidateLink, ctx.text) = 1
    /\ IsSuffix(Block(CandidateLink), ctx.text)

\* C5 as stated: when a reference is found and the link is not in the
\* message, the new message is the message with its trailing whitespace
\* trimmed, a blank line, the link, a newline.
C5_TrailingTrimmed ==
    (Finished /\ UsedRef # <<>> /\ ~Contains(origText, CandidateLink)) =>
        ctx.text = TrailingTrimmed(origText) \o Block(CandidateLink)

\* C5 amended: when a reference is found and the link is not in the message,
\* the new message is the message with its leading and trailing whitespace
\* trimmed, a blank line, the link, a newline; "fix bug" with ABC-1 and
\* https://j/browse gives "fix bug\n\nhttps://j/browse/ABC-1\n".
C5_BothEndsTrimmed ==
    (Finished /\ UsedRef # <<>> /\ ~Contains(origText, CandidateLink)) =>
        /\ ctx.text = Trimmed(origText) \o Block(CandidateLink)
        /\ (origText = FixBug /\ UsedRef = <<"A","B","C","-","1">> /\ Base = UrlBrowse) =>
               ctx.text = FixBugLinked

C5_Witness ==
    /\ Finished
    /\ UsedRef # <<>>
    /\ ~Contains(origText, CandidateLink)
    /\ origText # <<>>
    /\ origText[1] \in Whitespace
    /\ ctx.text = <<"f","i","x">> \o Block(CandidateLink)

\* C6: in a commit whose branch name yields a reference the bookmarks are
\* never asked for, every notice names the branch's link and "branch name",
\* and once a wrapper has run the message holds the branch's link.
C6_BranchFirst ==
    (commits >= 1 /\ depth >= 1 /\ BranchRef # <<>>) =>
        /\ asked = 0
        /\ \A i \in 1..Len(out) :
               out[i] = [link |-> Base \o <<"/">> \o BranchRef, whence |-> "branch name"]
        /\ level < depth => Contains(ctx.text, Base \o <<"/">> \o BranchRef)
        /\ (level < depth /\ ActiveBookmarkRef # BranchRef /\ ActiveBookmarkRef # <<>>) =>
               Count(Base \o <<"/">> \o ActiveBookmarkRef, ctx.text)
                   = Count(Base \o <<"/">> \o ActiveBookmarkRef, origText)

C6_Witness ==
    /\ Finished
    /\ BranchRef # <<>>
    /\ ActiveBookmarkRef # <<>>
    /\ ActiveBookmarkRef # BranchRef
    /\ out # <<>>

\* the key 'jira.url' is absent: the query fails or no setting has the key
KeyAbsent ==
    \/ hostConfig.raises
    \/ \A i \in 1..Len(hostConfig.items) : hostConfig.items[i][2] # "jira.url"

\* a step of the host that installs the hook: the process is idle and no
\* commit begins
SetupStep == pc = "idle" /\ commits' = commits

C7_NotInstalled ==
    /\ KeyAbsent => (wrappers = <<>> /\ depth = 0 /\ ctx.text = origText)
    /\ pc = "exited" => (KeyAbsent /\ exitStatus = 1)
    /\ pc # "exited" => exitStatus = -1

\* C7: with the key 'jira.url' absent, installing the hook prints the error
\* and the help, exits with status 1 and leaves repo.commitctx the original
\* commit operation: no wrapper is ever installed and no message rewritten.
C7_SetupFailure ==
    /\ []C7_NotInstalled
    /\ [][(SetupStep /\ KeyAbsent) =>
            /\ pc' = "exited"
            /\ exitStatus' = 1
            /\ out' = out \o << [link |-> <<>>,
                                 whence |-> "ERROR: Missing configuration key 'jira.url'"],
                                [link |-> <<>>, whence |-> "help"] >>
            /\ wrappers' = <<>>]_vars

C7_Witness ==
    /\ pc = "exited"
    /\ hostConfig.items # <<>>
    /\ commits >= 1
    /\ Len(delegations) = 1

C9_BookmarkFallback ==
    Finished =>
        /\ BranchRef = <<>> => asked = depth
        /\ (BranchRef = <<>> /\ ActiveBookmarkRef = <<>>) =>
               /\ ctx.text = origText
               /\ out = <<>>
               /\ Len(delegations) = 1
               /\ delegations[1].text = origText
        /\ out # <<>> <=> ctx.text # origText
        /\ Len(out) <= 1
        /\ \A i \in 1..Len(out) :
               /\ out[i].link = CandidateLink
               /\ out[i].whence = IF BranchRef = <<>> THEN "bookmark name" ELSE "branch name"

C9_Witness ==
    /\ Finished
    /\ BranchRef = <<>>
    /\ bm.active = -1
    /\ bm.list # <<>>
    /\ extract_project_and_id(bm.list[Len(bm.list)][1]) # <<>>
    /\ ctx.text = origText
    /\ asked >= 1

=============================================================================
